---- MODULE Spec2Model ----
(***************************************************************************)
(* A model of go2ts (github.com/alanshaw/go2ts): the Converter that turns  *)
(* a Go reflect.Type into a Typescript declaration string.                 *)
(*                                                                         *)
(* A reflect.Type is a record [kind, name, ...]; two types are the same    *)
(* reflect.Type exactly when the records are equal.  Go strings that the   *)
(* code inspects rune by rune (type and field names) are sequences of      *)
(* one-rune strings; declaration strings are TLA+ strings built with \o.   *)
(***************************************************************************)
EXTENDS Integers, Sequences, FiniteSets, TLC

VARIABLES
    types,          \* Converter.types: reflect.Type -> declaration
    paramNames,     \* Converter.paramNames: reflect.Type -> parameter name
    OnConvert,      \* Converter.OnConvert: which handler the caller installed
    seen,           \* the closure state of the caller's OnConvert handler
    ConfigureFunc,  \* Converter.ConfigureFunc: nil or the FuncConf it returns
    arg,            \* the reflect.Type handed to the pending Convert call
    last,           \* what the most recent Convert call did
    nSetup,         \* number of configuration calls made so far
    nConv           \* number of Convert calls made so far

vars == <<types, paramNames, OnConvert, seen, ConfigureFunc, arg, last, nSetup, nConv>>

---------------------------------------------------------------------------
(* Bounds of the model *)

MaxSetup == 2       \* configuration calls per behaviour
MaxConverts == 1    \* Convert calls per behaviour
MaxArrayLen == 2    \* lengths of the fixed-size arrays converted
MaxFields == 2      \* fields of the generated struct types
MaxParams == 3      \* parameters of the generated func types
MaxOuts == 2        \* results of the generated func types

---------------------------------------------------------------------------
(* Runes and strings *)

Uppers == <<"A","B","C","D","E","F","G","H","I","J","K","L","M",
            "N","O","P","Q","R","S","T","U","V","W","X","Y","Z">>
Lowers == <<"a","b","c","d","e","f","g","h","i","j","k","l","m",
            "n","o","p","q","r","s","t","u","v","w","x","y","z">>

\* runes whose UTF-8 encoding is longer than one byte
MultiByteUpper == {"É"}
MultiByteLower == {"é"}
MultiByte == MultiByteUpper \cup MultiByteLower

\* what ranging over a string yields for a byte that is not valid UTF-8
RuneError == "\\uFFFD"

\* unicode.IsUpper
IsUpper(r) == (\E i \in 1..Len(Uppers) : Uppers[i] = r) \/ r \in MultiByteUpper

\* unicode.IsLetter
IsLetter(r) ==
    \/ IsUpper(r)
    \/ \E i \in 1..Len(Lowers) : Lowers[i] = r
    \/ r \in MultiByteLower

\* unicode.ToLower on one rune
ToLowerRune(r) ==
    IF \E i \in 1..Len(Uppers) : Uppers[i] = r
    THEN Lowers[CHOOSE i \in 1..Len(Uppers) : Uppers[i] = r]
    ELSE IF r = "É" THEN "é" ELSE r

\* strings.ToLower
ToLower(s) == [i \in 1..Len(s) |-> ToLowerRune(s[i])]

\* s[0:1]: the first byte of s, as the runes a range loop decodes from it
FirstByte(s) == IF s[1] \in MultiByte THEN <<RuneError>> ELSE <<s[1]>>

\* the Go string made of the runes s
RECURSIVE Str(_)
Str(s) == IF s = <<>> THEN "" ELSE s[1] \o Str(Tail(s))

\* strings.Join(ss, sep)
RECURSIVE Join(_, _)
Join(ss, sep) ==
    IF ss = <<>> THEN ""
    ELSE IF Len(ss) = 1 THEN ss[1]
    ELSE ss[1] \o sep \o Join(Tail(ss), sep)

\* func.go isUpper: no rune of s is a letter that is not upper case
isUpper(s) == \A i \in 1..Len(s) : ~(~IsUpper(s[i]) /\ IsLetter(s[i]))

---------------------------------------------------------------------------
(* reflect.Type values *)

\* a predeclared or defined type of a basic kind: t.Kind() = k, t.Name() = n
Basic(k, n) == [kind |-> k, name |-> n]

BoolT == Basic("bool", <<"b","o","o","l">>)
IntT == Basic("int", <<"i","n","t">>)
Int8T == Basic("int8", <<"i","n","t","8">>)
Int16T == Basic("int16", <<"i","n","t","1","6">>)
Int32T == Basic("int32", <<"i","n","t","3","2">>)
Int64T == Basic("int64", <<"i","n","t","6","4">>)
UintT == Basic("uint", <<"u","i","n","t">>)
Uint8T == Basic("uint8", <<"u","i","n","t","8">>)
Uint16T == Basic("uint16", <<"u","i","n","t","1","6">>)
Uint32T == Basic("uint32", <<"u","i","n","t","3","2">>)
Uint64T == Basic("uint64", <<"u","i","n","t","6","4">>)
Float32T == Basic("float32", <<"f","l","o","a","t","3","2">>)
Float64T == Basic("float64", <<"f","l","o","a","t","6","4">>)
UintptrT == Basic("uintptr", <<"u","i","n","t","p","t","r">>)
StringT == Basic("string", <<"s","t","r","i","n","g">>)

\* the primitives table of go2ts.go
primitives ==
    (BoolT :> "boolean") @@
    (IntT :> "number") @@
    (Int8T :> "number") @@
    (Int16T :> "number") @@
    (Int32T :> "number") @@
    (Int64T :> "number") @@
    (UintT :> "number") @@
    (Uint8T :> "number") @@
    (Uint16T :> "number") @@
    (Uint32T :> "number") @@
    (Uint64T :> "number") @@
    (Float32T :> "number") @@
    (Float64T :> "number") @@
    (UintptrT :> "number") @@
    (StringT :> "string")

\* the paramNames table of func.go
defaultParamNames ==
    (BoolT :> "bool") @@
    (IntT :> "int") @@
    (Int8T :> "int") @@
    (Int16T :> "int") @@
    (Int32T :> "int") @@
    (Int64T :> "int") @@
    (UintT :> "uint") @@
    (Uint8T :> "uint") @@
    (Uint16T :> "uint") @@
    (Uint32T :> "uint") @@
    (Uint64T :> "uint") @@
    (Float32T :> "num") @@
    (Float64T :> "num") @@
    (StringT :> "str")


\* composite types
PtrTo(e) == [kind |-> "ptr", name |-> <<>>, elem |-> e]
SliceOf(e) == [kind |-> "slice", name |-> <<>>, elem |-> e]
ArrayOf(n, e) == [kind |-> "array", name |-> <<>>, len |-> n, elem |-> e]
MapOf(k, e) == [kind |-> "map", name |-> <<>>, key |-> k, elem |-> e]
ChanOf(e) == [kind |-> "chan", name |-> <<>>, elem |-> e]
StructOf(n, fs) == [kind |-> "struct", name |-> n, fields |-> fs]
FuncOf(ins, outs) == [kind |-> "func", name |-> <<>>, in |-> ins, out |-> outs]
InterfaceOf(n, ms) == [kind |-> "interface", name |-> n, methods |-> ms]
Field(n, t) == [Name |-> n, Type |-> t]

\* var errorType = reflect.TypeOf((*error)(nil)).Elem()
errorType == InterfaceOf(<<"e","r","r","o","r">>, {"Error"})

\* t.Implements(u): the method set of t includes the methods of interface u
Implements(t, u) == "methods" \in DOMAIN t /\ u.methods \subseteq t.methods

\* the types of the tests, the README and the package documentation
UserT == StructOf(<<"U","s","e","r">>, <<Field(<<"N","a","m","e">>, StringT)>>)
NestedT == StructOf(<<"N","e","s","t","e","d">>, <<Field(<<"O","w","n","e","r">>, UserT)>>)
ContextT == InterfaceOf(<<"C","o","n","t","e","x","t">>, {"Deadline", "Done", "Err", "Value"})
AnyT == InterfaceOf(<<>>, {})

\* a defined type whose underlying type is int:  type MyInt int
MyIntT == Basic("int", <<"M","y","I","n","t">>)
\* a defined type whose underlying type is string:  type ID string
IDT == Basic("string", <<"I","D">>)
\* a struct type with an Error method:  func (MyErr) Error() string
MyErrT == [kind |-> "struct", name |-> <<"M","y","E","r","r">>, fields |-> <<>>,
           methods |-> {"Error"}]
\* a kind that Convert has no branch for
Complex128T == Basic("complex128", <<"c","o","m","p","l","e","x","1","2","8">>)

---------------------------------------------------------------------------
(* FuncConf *)

\* the zero FuncConf, used when ConfigureFunc is nil
ZeroFuncConf ==
    [IsSync |-> FALSE, AlwaysArray |-> FALSE, NoIgnoreContext |-> FALSE,
     IsMethod |-> FALSE, MethodName |-> "", ParamNames |-> <<>>]

\* Converter.ConfigureFunc = nil
NilFunc == [set |-> FALSE, conf |-> ZeroFuncConf]
\* Converter.ConfigureFunc = func(reflect.Type) FuncConf { return fc }
FuncReturning(fc) == [set |-> TRUE, conf |-> fc]

---------------------------------------------------------------------------
(* The conversion.  A call works on the record                             *)
(*   [types, seen, log]                                                    *)
(* of what it can change: the types table, the closure state of the        *)
(* OnConvert handler, and the record of what happened during the call.     *)
(* It yields [st, ts, panicked]: the record afterwards, the string it      *)
(* returns, and whether it panicked instead of returning.                  *)

\* record one step of a call: entering Convert, the scan of primitives, the
\* kind dispatch, a call of ConfigureFunc, a call of OnConvert, Convert
\* returning, convert returning, a panic leaving Convert
Emit(st, ev, t, ts) ==
    [st EXCEPT !.log = Append(@, [ev |-> ev, t |-> t, ts |-> ts, types |-> st.types])]

Return(st, ts) == [st |-> st, ts |-> ts, panicked |-> FALSE]
Panic(st) == [st |-> st, ts |-> "", panicked |-> TRUE]

\* Converter.AddTypes on the types table tbl
AddTypesTo(tbl, customTypes) ==
    [k \in DOMAIN tbl \cup DOMAIN customTypes |->
        IF k \in DOMAIN customTypes THEN customTypes[k] ELSE tbl[k]]

\* Converter.AddParamNames on the paramNames table tbl
AddParamNamesTo(tbl, customParamNames) ==
    [k \in DOMAIN tbl \cup DOMAIN customParamNames |->
        IF k \in DOMAIN customParamNames THEN customParamNames[k] ELSE tbl[k]]

\* the declaration the caller's OnConvert handler registers for t
HookDecl(t) == Str(t.name)

\* c.OnConvert(t, ts).  The handlers a caller installs:
\*   "noop"            the default of NewConverter
\*   "register"        calls c.AddTypes for every named type it is told of
\*   "registerSecond"  calls c.AddTypes for a named type the second time it
\*                     is told of it
RunOnConvert(st, t, ts) ==
    LET s1 == Emit(st, "hook", t, ts)
    IN  IF OnConvert = "noop" \/ t.name = <<>> THEN s1
        ELSE IF OnConvert = "register" \/ t \in s1.seen
        THEN [s1 EXCEPT !.types = AddTypesTo(@, t :> HookDecl(t))]
        ELSE [s1 EXCEPT !.seen = @ \cup {t}]

\* Converter.paramName
RECURSIVE paramName(_)
paramName(t) ==
    IF t \in DOMAIN paramNames THEN paramNames[t]
    ELSE IF t.kind = "ptr" \/ t.kind = "slice" THEN paramName(t.elem)
    ELSE IF t.name = <<>> THEN "_"
    ELSE IF isUpper(t.name) THEN Str(ToLower(t.name))
    ELSE Str(ToLower(FirstByte(t.name)) \o Tail(t.name))

\* a faulty appendParam loop, which C6 must tell from the real one: it tries
\* Name and Name1 and does not look whether Name1 is taken
uniqueNameOnce(params, pName, n) ==
    IF \E i \in 1..Len(params) : params[i].Name = pName
    THEN pName \o ToString(n + 1)
    ELSE pName

\* the loop of funcInfo.appendParam: the first of Name, Name1, Name2, ...
\* from the n-th on that no parameter of params has
RECURSIVE uniqueName(_, _, _)
uniqueName(params, pName, n) ==
    LET name == IF n = 0 THEN pName ELSE pName \o ToString(n)
    IN  IF \E i \in 1..Len(params) : params[i].Name = name
        THEN uniqueName(params, pName, n + 1)
        ELSE name

\* funcInfo.appendParam
appendParam(params, p) ==
    Append(params, [Name |-> uniqueName(params, p.Name, 0), Type |-> p.Type])

RECURSIVE Convert(_, _)
RECURSIVE funcRets(_, _, _, _)
RECURSIVE funcParams(_, _, _, _, _)
RECURSIVE structFields(_, _, _, _)

\* a faulty convert, which C3 must tell from the real one: it does not look
\* into c.types again
recheckNever(r, t) ==
    IF r.panicked THEN r ELSE Return(Emit(r.st, "ret", t, r.ts), r.ts)

\* convert, after its call of Convert yielded r: the lookup in c.types again
recheck(r, t) ==
    IF r.panicked THEN r
    ELSE IF t \in DOMAIN r.st.types
    THEN Return(Emit(r.st, "ret", t, r.st.types[t]), r.st.types[t])
    ELSE Return(Emit(r.st, "ret", t, r.ts), r.ts)

\* Converter.convert
convert(st, t) == recheck(Convert(st, t), t)

\* fmt.Sprintf(pre + "%s" + post, r) for the r that c.convert(t.Elem()) yielded
Wrap(r, pre, post) == IF r.panicked THEN r ELSE Return(r.st, pre \o r.ts \o post)

\* extractFunc: rets = append(rets, r) for the r that c.convert(out) yielded,
\* and on to t.Out(i+1)
appendRet(r, t, i, rets) ==
    IF r.panicked THEN [st |-> r.st, rets |-> rets, panicked |-> TRUE]
    ELSE funcRets(r.st, t, i + 1, Append(rets, r.ts))

\* extractFunc: the loop over t.Out(i), from the 1-based index i on
funcRets(st, t, i, rets) ==
    IF i > Len(t.out) THEN [st |-> st, rets |-> rets, panicked |-> FALSE]
    ELSE IF i = Len(t.out) /\ Implements(t.out[i], errorType)
    THEN [st |-> st, rets |-> rets, panicked |-> FALSE]
    ELSE appendRet(convert(st, t.out[i]), t, i, rets)

\* extractFunc: finfo.appendParam(param{name, r}) for the r that c.convert(in)
\* yielded, and on to t.In(i+1)
addParam(r, t, fconf, i, params, name) ==
    IF r.panicked THEN [st |-> r.st, params |-> params, panicked |-> TRUE]
    ELSE funcParams(r.st, t, fconf, i + 1,
                    appendParam(params, [Name |-> name, Type |-> r.ts]))

\* extractFunc: the loop over t.In(i), from the 0-based index i on
funcParams(st, t, fconf, i, params) ==
    IF i >= Len(t.in) THEN [st |-> st, params |-> params, panicked |-> FALSE]
    ELSE IF t.in[i + 1].name = <<"C","o","n","t","e","x","t">> /\ ~fconf.NoIgnoreContext
    THEN funcParams(st, t, fconf, i + 1, params)
    ELSE addParam(convert(st, t.in[i + 1]), t, fconf, i, params,
                  IF Len(fconf.ParamNames) > i
                  THEN fconf.ParamNames[i + 1]
                  ELSE paramName(t.in[i + 1]))

\* a faulty folding, which C5 must tell from the real one: AlwaysArray is
\* not looked at
foldReturnsNoAlways(rets, fconf) ==
    IF Len(rets) > 1 THEN "[" \o Join(rets, ", ") \o "]"
    ELSE IF Len(rets) = 1 THEN rets[1]
    ELSE "void"

\* extractFunc: the folding of the converted results into finfo.Returns
foldReturns(rets, fconf) ==
    IF (Len(rets) > 0 /\ fconf.AlwaysArray) \/ Len(rets) > 1
    THEN "[" \o Join(rets, ", ") \o "]"
    ELSE IF Len(rets) = 1 THEN rets[1]
    ELSE "void"

\* extractFunc: the Promise wrapper around finfo.Returns
wrapReturns(returns, fconf) ==
    IF ~fconf.IsSync THEN "Promise<" \o returns \o ">" ELSE returns

\* extractFunc, after its parameter loop yielded p: the funcInfo it returns
funcInfoOf(p, returns, t, fconf) ==
    IF p.panicked THEN [st |-> p.st, panicked |-> TRUE]
    ELSE [st |-> p.st, panicked |-> FALSE,
          finfo |-> [Name |-> t.name, Params |-> p.params,
                     Returns |-> wrapReturns(returns, fconf)]]

\* extractFunc, after its result loop yielded o: the parameter loop
extractParams(o, t, fconf) ==
    IF o.panicked THEN [st |-> o.st, panicked |-> TRUE]
    ELSE funcInfoOf(funcParams(o.st, t, fconf, IF fconf.IsMethod THEN 1 ELSE 0, <<>>),
                    foldReturns(o.rets, fconf), t, fconf)

\* Converter.extractFunc
extractFunc(st, t, fconf) == extractParams(funcRets(st, t, 1, <<>>), t, fconf)

\* fmt.Sprintf("%s: %s", p.Name, p.Type) for every p of ps
NameTypeList(ps) == [i \in 1..Len(ps) |-> ps[i].Name \o ": " \o ps[i].Type]

\* convertFunc, after extractFunc yielded e: the declaration
renderFunc(e, fconf) ==
    IF e.panicked THEN Panic(e.st)
    ELSE IF fconf.IsMethod
    THEN Return(e.st, fconf.MethodName \o " (" \o Join(NameTypeList(e.finfo.Params), ", ")
                      \o "): " \o e.finfo.Returns)
    ELSE Return(e.st, "(" \o Join(NameTypeList(e.finfo.Params), ", ")
                      \o ") => " \o e.finfo.Returns)

\* Converter.convertFunc
convertFunc(st, t) ==
    IF ConfigureFunc.set
    THEN renderFunc(extractFunc(Emit(st, "configure", t, ""), t, ConfigureFunc.conf),
                    ConfigureFunc.conf)
    ELSE renderFunc(extractFunc(st, t, ZeroFuncConf), ZeroFuncConf)

\* extractStruct: sinfo.Fields = append(sinfo.Fields, field{f.Name, r}) for the
\* r that c.convert(f.Type) yielded, and on to t.Field(i+1)
appendField(r, t, i, fields) ==
    IF r.panicked THEN [st |-> r.st, fields |-> fields, panicked |-> TRUE]
    ELSE structFields(r.st, t, i + 1,
                      Append(fields, [Name |-> Str(t.fields[i].Name), Type |-> r.ts]))

\* extractStruct: the loop over t.Field(i), from the 1-based index i on
structFields(st, t, i, fields) ==
    IF i > Len(t.fields) THEN [st |-> st, fields |-> fields, panicked |-> FALSE]
    ELSE IF ~isUpper(FirstByte(t.fields[i].Name))
    THEN structFields(st, t, i + 1, fields)
    ELSE appendField(convert(st, t.fields[i].Type), t, i, fields)

\* extractStruct, after its loop yielded e: the structInfo it returns
structInfoOf(e, t) ==
    IF e.panicked THEN [st |-> e.st, panicked |-> TRUE]
    ELSE [st |-> e.st, panicked |-> FALSE,
          sinfo |-> [Name |-> t.name, Fields |-> e.fields]]

\* Converter.extractStruct
extractStruct(st, t) == structInfoOf(structFields(st, t, 1, <<>>), t)

\* convertStruct, after extractStruct yielded e: the declaration
renderStruct(e) ==
    IF e.panicked THEN Panic(e.st)
    ELSE IF Len(e.sinfo.Fields) = 0 THEN Return(e.st, "{}")
    ELSE Return(e.st, "{ " \o Join(NameTypeList(e.sinfo.Fields), ", ") \o " }")

\* Converter.convertStruct
convertStruct(st, t) == renderStruct(extractStruct(st, t))

\* a faulty scan, which C9 must tell from the real one: it takes the
\* declaration from the types table of the converter
PrimitiveOfKindInTable(kind) ==
    IF \E p \in DOMAIN primitives : p.kind = kind
    THEN [ok |-> TRUE,
          ts |-> types[CHOOSE p \in DOMAIN primitives : p.kind = kind]]
    ELSE [ok |-> FALSE, ts |-> ""]

\* the result of the loop of Convert over the primitives table: the scan
\* stops at the first entry of the kind, whichever the map's order puts first
PrimitiveOfKind(kind) ==
    IF \E p \in DOMAIN primitives : p.kind = kind
    THEN [ok |-> TRUE,
          ts |-> primitives[CHOOSE p \in DOMAIN primitives : p.kind = kind]]
    ELSE [ok |-> FALSE, ts |-> ""]

\* a faulty dispatch, which C8 must tell from the real one: a pointer is
\* declared as its pointee or null
dispatchPtrNullable(st, t) ==
    IF t.kind = "ptr" THEN Wrap(convert(st, t.elem), "", " | null")
    ELSE IF t.kind = "chan" THEN Wrap(convert(st, t.elem), "AsyncIterable<", ">")
    ELSE IF t.kind = "func" THEN convertFunc(st, t)
    ELSE IF t.kind = "struct" THEN convertStruct(st, t)
    ELSE IF t.kind = "slice" THEN Wrap(convert(st, t.elem), "Array<", ">")
    ELSE IF t.kind = "map" THEN Wrap(convert(st, t.elem), "{ [k: string]: ", " }")
    ELSE IF t.kind = "interface" THEN Return(st, "any")
    ELSE Panic(st)

\* Convert: the dispatch on t.Kind()
dispatch(st, t) ==
    IF t.kind = "ptr" THEN convert(st, t.elem)
    ELSE IF t.kind = "chan" THEN Wrap(convert(st, t.elem), "AsyncIterable<", ">")
    ELSE IF t.kind = "func" THEN convertFunc(st, t)
    ELSE IF t.kind = "struct" THEN convertStruct(st, t)
    ELSE IF t.kind = "slice" THEN Wrap(convert(st, t.elem), "Array<", ">")
    ELSE IF t.kind = "map" THEN Wrap(convert(st, t.elem), "{ [k: string]: ", " }")
    ELSE IF t.kind = "interface" THEN Return(st, "any")
    ELSE Panic(st)

\* Convert: the deferred call of OnConvert, after the dispatch yielded r.  It
\* runs when Convert returns and also when a panic unwinds through Convert;
\* ts is then still the empty string that the lookup in c.types left in it.
deferred(r, t) ==
    IF r.panicked
    THEN Panic(Emit(RunOnConvert(r.st, t, ""), "panic", t, ""))
    ELSE Return(Emit(RunOnConvert(r.st, t, r.ts), "exit", t, r.ts), r.ts)

\* Convert, after the lookup in c.types found nothing: the scan of primitives
scan(st, t, prim) ==
    IF prim.ok THEN Return(Emit(st, "exit", t, prim.ts), prim.ts)
    ELSE deferred(dispatch(Emit(st, "dispatch", t, ""), t), t)

\* a faulty Convert, which C1 must tell from the real one: the scan of the
\* primitives comes before the lookup in c.types
ConvertScanFirst(st, t) ==
    IF t \in DOMAIN st.types /\ ~PrimitiveOfKind(t.kind).ok
    THEN Return(Emit(Emit(st, "enter", t, ""), "exit", t, st.types[t]), st.types[t])
    ELSE scan(Emit(Emit(st, "enter", t, ""), "scan", t, ""), t, PrimitiveOfKind(t.kind))

\* Converter.Convert
Convert(st, t) ==
    IF t \in DOMAIN st.types
    THEN Return(Emit(Emit(st, "enter", t, ""), "exit", t, st.types[t]), st.types[t])
    ELSE scan(Emit(Emit(st, "enter", t, ""), "scan", t, ""), t, PrimitiveOfKind(t.kind))

---------------------------------------------------------------------------
(* The converter as a state machine: the calls of its API *)

\* no Convert call has been made yet
NoCall ==
    [op |-> "none", t |-> AnyT, ts |-> "", panicked |-> FALSE, log |-> <<>>,
     typesBefore |-> primitives, seenBefore |-> {}, nSetup |-> 0]

\* no Convert call is pending
NoArg == [kind |-> "none", name |-> <<>>]

\* NewConverter
NewConverter ==
    /\ types = AddTypesTo(<<>>, primitives)
    /\ paramNames = AddParamNamesTo(<<>>, defaultParamNames)
    /\ OnConvert = "noop"
    /\ seen = {}
    /\ ConfigureFunc = NilFunc
    /\ last = NoCall
    /\ nSetup = 0
    /\ nConv = 0

\* a struct with two fields of the same named type
PairT == StructOf(<<>>, <<Field(<<"A">>, UserT), Field(<<"B">>, UserT)>>)
\* a struct with a field of a kind that Convert has no branch for
BadT == StructOf(<<"B","a","d">>,
                 <<Field(<<"N","a","m","e">>, UserT), Field(<<"C">>, Complex128T)>>)
\* the func of the end-to-end example
LookupT == FuncOf(<<ContextT, StringT>>, <<UserT, errorType>>)

\* the types the callers of Convert hand to it
ConvertTypes ==
    {StringT, IntT, MyIntT, IDT, Complex128T, AnyT, UserT, NestedT, PairT, BadT,
     PtrTo(UserT), PtrTo(BadT), SliceOf(UserT), SliceOf(MyIntT), SliceOf(Complex128T),
     MapOf(IntT, UserT), ChanOf(UserT),
     LookupT, FuncOf(<<UserT, PtrTo(UserT)>>, <<>>), FuncOf(<<>>, <<Complex128T>>)}
    \cup {ArrayOf(n, e) : n \in 1..MaxArrayLen, e \in {StringT, UserT}}

\* the tables the callers hand to AddTypes
TypeChoices ==
    {UserT :> "User", IntT :> "bigint", PtrTo(UserT) :> "UserRef",
     (LookupT :> "Lookup") @@ (MyIntT :> "MyInt")}

\* the tables the callers hand to AddParamNames
ParamNameChoices == {UserT :> "u"}

\* the handlers the callers assign to OnConvert in place of the default
Hooks == {"register", "registerSecond"}

\* the FuncConf of the README and the method FuncConf of TestFuncs
ReadmeConf ==
    [IsSync |-> TRUE, AlwaysArray |-> TRUE, NoIgnoreContext |-> TRUE,
     IsMethod |-> FALSE, MethodName |-> "", ParamNames |-> <<"ctx">>]
MethodConf ==
    [IsSync |-> FALSE, AlwaysArray |-> FALSE, NoIgnoreContext |-> FALSE,
     IsMethod |-> TRUE, MethodName |-> "Method", ParamNames |-> <<>>]

Init == NewConverter /\ arg = NoArg

\* c.AddTypes(customTypes)
AddTypes(customTypes) ==
    /\ nSetup < MaxSetup
    /\ types' = AddTypesTo(types, customTypes)
    /\ nSetup' = nSetup + 1
    /\ UNCHANGED <<paramNames, OnConvert, seen, ConfigureFunc, arg, last, nConv>>

\* c.AddParamNames(customParamNames)
AddParamNames(customParamNames) ==
    /\ nSetup < MaxSetup
    /\ paramNames' = AddParamNamesTo(paramNames, customParamNames)
    /\ nSetup' = nSetup + 1
    /\ UNCHANGED <<types, OnConvert, seen, ConfigureFunc, arg, last, nConv>>

\* c.OnConvert = h, a handler with a fresh closure
SetOnConvert(h) ==
    /\ nSetup < MaxSetup
    /\ OnConvert' = h
    /\ seen' = {}
    /\ nSetup' = nSetup + 1
    /\ UNCHANGED <<types, paramNames, ConfigureFunc, arg, last, nConv>>

\* c.ConfigureFunc = func(t reflect.Type) FuncConf { return fc }
SetConfigureFunc(fc) ==
    /\ nSetup < MaxSetup
    /\ ConfigureFunc' = FuncReturning(fc)
    /\ nSetup' = nSetup + 1
    /\ UNCHANGED <<types, paramNames, OnConvert, seen, arg, last, nConv>>

\* what c.Convert(t) leaves behind when called in the current state
Call(t) ==
    LET r == Convert([types |-> types, seen |-> seen, log |-> <<>>], t)
    IN  /\ types' = r.st.types
        /\ seen' = r.st.seen
        /\ last' = [op |-> "Convert", t |-> t, ts |-> r.ts, panicked |-> r.panicked,
                    log |-> r.st.log, typesBefore |-> types, seenBefore |-> seen,
                    nSetup |-> nSetup]

\* c.Convert(t)
DoConvert(t) ==
    /\ nConv < MaxConverts
    /\ Call(t)
    /\ arg' = t
    /\ nConv' = nConv + 1
    /\ UNCHANGED <<paramNames, OnConvert, ConfigureFunc, nSetup>>

Next ==
    \/ \E m \in TypeChoices : AddTypes(m)
    \/ \E m \in ParamNameChoices : AddParamNames(m)
    \/ \E h \in Hooks : SetOnConvert(h)
    \/ \E fc \in {ReadmeConf, MethodConf} : SetConfigureFunc(fc)
    \/ \E t \in ConvertTypes : DoConvert(t)

Spec == Init /\ [][Next]_vars


---------------------------------------------------------------------------
(* Convert applied to generated func and struct types *)

SeqsUpTo(S, n) == UNION {[1..k -> S] : k \in 0..n}

\* the parameter and result types of the generated func types
ParamTypes == {StringT, UserT, ContextT}
OutTypes == {StringT, IntT, errorType, MyErrT}

\* func types with up to MaxParams parameters or up to MaxOuts results
FuncTypes ==
    {FuncOf(ins, <<>>) : ins \in SeqsUpTo(ParamTypes, MaxParams)}
    \cup {FuncOf(ins, outs) : ins \in {<<>>, <<StringT>>}, outs \in SeqsUpTo(OutTypes, MaxOuts)}

\* the FuncConf.ParamNames the callers supply
ParamNamesChoices == {<<>>, <<"x1", "x", "x">>, <<"str1">>}

\* the values the callers assign to ConfigureFunc
FuncChoices ==
    {NilFunc} \cup
    {FuncReturning([IsSync |-> s, AlwaysArray |-> a, NoIgnoreContext |-> n,
                    IsMethod |-> m, MethodName |-> IF m THEN "Method" ELSE "",
                    ParamNames |-> pn]) :
        s \in BOOLEAN, a \in BOOLEAN, n \in BOOLEAN, m \in BOOLEAN,
        pn \in ParamNamesChoices}

\* the names and types of the fields of the generated struct types
FieldNames == {<<"N","a","m","e">>, <<"I","D">>, <<"a","g","e">>, <<"_">>,
               <<"é","t","e">>, <<"_","x">>}
FieldTypes == {StringT, UserT}

\* struct types with up to MaxFields fields; only the blank field may repeat
StructTypes ==
    {StructOf(<<>>, fs) :
        fs \in {q \in SeqsUpTo({Field(n, t) : n \in FieldNames, t \in FieldTypes}, MaxFields) :
                  \A i, j \in 1..Len(q) :
                      i # j /\ q[i].Name = q[j].Name => q[i].Name = <<"_">>}}

\* a converter as NewConverter returns it, its two handler fields assigned,
\* about to convert a generated type
InitArg ==
    /\ types = AddTypesTo(<<>>, primitives)
    /\ paramNames = AddParamNamesTo(<<>>, defaultParamNames)
    /\ OnConvert \in {"noop", "register"}
    /\ seen = {}
    /\ ConfigureFunc \in FuncChoices
    /\ last = NoCall
    /\ nSetup = 0
    /\ nConv = 0
    /\ arg \in FuncTypes \cup StructTypes

\* c.Convert(arg)
ConvertArg ==
    /\ last.op = "none"
    /\ arg # NoArg
    /\ Call(arg)
    /\ nConv' = nConv + 1
    /\ UNCHANGED <<paramNames, OnConvert, ConfigureFunc, arg, nSetup>>

NextArg == ConvertArg

SpecArg == InitArg /\ [][NextArg]_vars


---------------------------------------------------------------------------
(* Reading the record of the last Convert call *)

Log == last.log

\* a Convert call has been made
Called == last.op = "Convert"

\* a Convert call has been made, and the caller has made no configuration
\* call since: paramNames, OnConvert and ConfigureFunc are as the call saw them
Fresh == Called /\ last.nSetup = nSetup

\* the state the last Convert call started in
Pre == [types |-> last.typesBefore, seen |-> last.seenBefore, log |-> <<>>]

\* the FuncConf that convertFunc works with
CurrentConf == IF ConfigureFunc.set THEN ConfigureFunc.conf ELSE ZeroFuncConf

\* the number of Convert calls in progress after the k-th step of the record
Depth(k) ==
    Cardinality({i \in 1..k : Log[i].ev = "enter"})
    - Cardinality({i \in 1..k : Log[i].ev \in {"exit", "panic"}})

RECURSIVE Ascending(_)
Ascending(S) ==
    IF S = {} THEN <<>>
    ELSE LET m == CHOOSE x \in S : \A y \in S : x <= y
         IN  <<m>> \o Ascending(S \ {m})

\* the strings that the convert calls made by the outermost Convert call
\* itself returned, in the order of the calls
TopRets ==
    LET idx == Ascending({k \in 1..Len(Log) : Log[k].ev = "ret" /\ Depth(k) = 1})
    IN  [i \in 1..Len(idx) |-> Log[idx[i]]]

\* the k-th step of the record is OnConvert registering a declaration for
\* the type it was called with
Installs(k) ==
    /\ k < Len(Log)
    /\ Log[k].ev = "hook"
    /\ Log[k].t \notin DOMAIN Log[k].types
    /\ Log[k].t \in DOMAIN Log[k + 1].types

\* the kinds of the entries of the primitives table
PrimitiveKinds == {p.kind : p \in DOMAIN primitives}

---------------------------------------------------------------------------
(* C1 *)

\* every Convert call of the record that found its type in the types table
\* returned that entry at once, the table as it was
HitsReturnAtOnce ==
    \A i \in 1..Len(Log) :
        Log[i].ev = "enter" /\ Log[i].t \in DOMAIN Log[i].types =>
            /\ i < Len(Log)
            /\ Log[i + 1].ev = "exit"
            /\ Log[i + 1].t = Log[i].t
            /\ Log[i + 1].ts = Log[i].types[Log[i].t]
            /\ Log[i + 1].types = Log[i].types

\* C1: a Convert call, top-level or nested, on a type that has an entry in
\* the types table returns that entry verbatim, without the scan of the
\* primitives, the kind dispatch, OnConvert or ConfigureFunc, and leaves the
\* types table and the paramNames table as they were.
C1_OverrideShortCircuits ==
    [][nConv' # nConv =>
        /\ HitsReturnAtOnce'
        /\ last'.t \in DOMAIN types =>
              /\ ~last'.panicked
              /\ last'.ts = types[last'.t]
              /\ Len(last'.log) = 2
              /\ types' = types
              /\ paramNames' = paramNames]_vars

\* a nested Convert call hit a caller-registered entry of a struct type and
\* the top-level call hit one of a func type, ConfigureFunc being set
C1_Witness ==
    /\ Called
    /\ ConfigureFunc.set
    /\ \/ last.t.kind = "func" /\ last.t \in DOMAIN last.typesBefore
       \/ \E i \in 2..Len(Log) :
             /\ Log[i].ev = "enter"
             /\ Log[i].t.kind = "struct"
             /\ Log[i].t \in DOMAIN Log[i].types

---------------------------------------------------------------------------
(* C2 *)

\* C2: every Convert call that returns, top-level or nested, on a type
\* without an entry in the types table calls OnConvert once, with that type
\* and the declaration the call returns.
C2_HookAfterEveryMiss ==
    Called /\ ~last.panicked =>
        /\ \A i \in 1..Len(Log) :
              Log[i].ev = "enter" /\ Log[i].t \notin DOMAIN Log[i].types =>
                  \E j \in (i + 1)..(Len(Log) - 1) :
                      /\ Log[j].ev = "hook"
                      /\ Log[j].t = Log[i].t
                      /\ Log[j + 1].ev = "exit"
                      /\ Log[j + 1].t = Log[i].t
                      /\ Log[j + 1].ts = Log[j].ts
        /\ \A u \in {Log[i].t : i \in 1..Len(Log)} :
              Cardinality({j \in 1..Len(Log) : Log[j].ev = "hook" /\ Log[j].t = u})
              = Cardinality({i \in 1..Len(Log) :
                    Log[i].ev = "enter" /\ Log[i].t = u /\ u \notin DOMAIN Log[i].types})

---------------------------------------------------------------------------
(* C4 *)

\* C4: Convert of a fixed-size array returns, and returns what Convert of
\* the slice of the same element type returns from the same state.
C4_ArrayLikeSlice ==
    Fresh /\ last.t.kind = "array" /\ last.t \notin DOMAIN last.typesBefore =>
        LET r == Convert(Pre, SliceOf(last.t.elem))
        IN  ~r.panicked => ~last.panicked /\ last.ts = r.ts

---------------------------------------------------------------------------
(* C10 *)

\* C10: when a Convert call panics on an unhandled kind, OnConvert is not
\* called from then on: every call of OnConvert is with a declaration that
\* the Convert call then returns, and OnConvert is not called for the type
\* of the call that failed.
C10_NoHookAfterPanic ==
    Called /\ last.panicked =>
        /\ \A j \in 1..Len(Log) :
              Log[j].ev = "hook" =>
                  j < Len(Log) /\ Log[j + 1].ev = "exit" /\ Log[j + 1].ts = Log[j].ts
        /\ \A j \in 1..Len(Log) : ~(Log[j].ev = "hook" /\ Log[j].t = last.t)


---------------------------------------------------------------------------
(* C9 *)

\* the entry of the primitives table of the kind of t
PrimitiveLike(t) == CHOOSE p \in DOMAIN primitives : p.kind = t.kind

\* C9 as stated: a type without an entry of its own whose kind is that of a
\* primitive converts to what the types table holds for that primitive.
C9_AliasFollowsTable ==
    Called =>
        \A i \in 1..Len(Log) :
            /\ Log[i].ev = "enter"
            /\ Log[i].t \notin DOMAIN Log[i].types
            /\ Log[i].t.kind \in PrimitiveKinds
            /\ PrimitiveLike(Log[i].t) \in DOMAIN Log[i].types
            => /\ i + 2 <= Len(Log)
               /\ Log[i + 2].ev = "exit"
               /\ Log[i + 2].ts = Log[i].types[PrimitiveLike(Log[i].t)]

\* C9, amended: a type without an entry of its own whose kind is that of a
\* primitive converts to what the package's primitives table holds for the
\* primitive of that kind, whatever the types table holds for it; the table
\* has one primitive of each kind, so the order of the scan does not matter.
C9_AliasFollowsPrimitives ==
    Called =>
        \A i \in 1..Len(Log) :
            /\ Log[i].ev = "enter"
            /\ Log[i].t \notin DOMAIN Log[i].types
            /\ Log[i].t.kind \in PrimitiveKinds
            => /\ i + 2 <= Len(Log)
               /\ Log[i + 1].ev = "scan"
               /\ Log[i + 2].ev = "exit"
               /\ Log[i + 2].t = Log[i].t
               /\ Log[i + 2].types = Log[i].types
               /\ \A p \in DOMAIN primitives :
                     p.kind = Log[i].t.kind => Log[i + 2].ts = primitives[p]

\* type MyInt int was converted, top-level or nested, after the caller had
\* replaced the entry of int
C9_Witness ==
    /\ Called
    /\ last.typesBefore[IntT] = "bigint"
    /\ \E i \in 1..Len(Log) :
          Log[i].ev = "exit" /\ Log[i].t = MyIntT /\ Log[i].ts = "number"

---------------------------------------------------------------------------
(* C8 *)

\* the last call converted a pointer to a struct, and Convert of the struct
\* from the same state ends the same way
SameAsPointee ==
    LET r == Convert(Pre, last.t.elem)
    IN  /\ last.panicked = r.panicked
        /\ ~r.panicked => last.ts = r.ts

\* C8 as stated: in every state of the converter Convert of a pointer to a
\* struct and Convert of the struct return the same declaration.
C8_PointerErasedAlways ==
    Fresh /\ last.t.kind = "ptr" /\ last.t.elem.kind = "struct" => SameAsPointee

\* C8, amended: Convert of a pointer to a struct and Convert of the struct,
\* called from the same state, return the same declaration (or both panic)
\* when the pointer type has no entry of its own in the types table and
\* OnConvert registers no declaration for the struct during the call.
C8_PointerErased ==
    /\ Fresh
    /\ last.t.kind = "ptr"
    /\ last.t.elem.kind = "struct"
    /\ last.t \notin DOMAIN last.typesBefore
    /\ (last.t.elem \in DOMAIN types => last.t.elem \in DOMAIN last.typesBefore)
    => SameAsPointee

\* a pointer to User was converted to the expansion of User while a handler
\* that registers declarations was installed
C8_Witness ==
    /\ Called
    /\ last.t = PtrTo(UserT)
    /\ OnConvert = "registerSecond"
    /\ ~last.panicked
    /\ last.ts = "{ Name: string }"


---------------------------------------------------------------------------
(* C3 *)

\* the outermost call of the record built its declaration from the strings
\* that its own convert calls returned when they were made
BuiltFromReturns ==
    LET t == last.t
        rets == [i \in 1..Len(TopRets) |-> TopRets[i].ts]
    IN  IF t.kind = "ptr" THEN rets # <<>> /\ last.ts = rets[1]
        ELSE IF t.kind = "slice" THEN rets # <<>> /\ last.ts = "Array<" \o rets[1] \o ">"
        ELSE IF t.kind = "chan"
        THEN rets # <<>> /\ last.ts = "AsyncIterable<" \o rets[1] \o ">"
        ELSE IF t.kind = "map"
        THEN rets # <<>> /\ last.ts = "{ [k: string]: " \o rets[1] \o " }"
        ELSE IF t.kind = "struct"
        THEN LET e == extractStruct(Pre, t)
             IN  /\ Len(e.sinfo.Fields) = Len(rets)
                 /\ last.ts = IF rets = <<>> THEN "{}"
                              ELSE "{ " \o Join([i \in 1..Len(rets) |->
                                       e.sinfo.Fields[i].Name \o ": " \o rets[i]], ", ") \o " }"
        ELSE IF t.kind = "func"
        THEN LET e == extractFunc(Pre, t, CurrentConf)
                 np == Len(e.finfo.Params)
                 nr == Len(rets) - np
                 params == Join([i \in 1..np |->
                               e.finfo.Params[i].Name \o ": " \o rets[nr + i]], ", ")
                 returns == wrapReturns(foldReturns(SubSeq(rets, 1, nr), CurrentConf),
                                        CurrentConf)
             IN  /\ nr >= 0
                 /\ last.ts = IF CurrentConf.IsMethod
                              THEN CurrentConf.MethodName \o " (" \o params \o "): " \o returns
                              ELSE "(" \o params \o ") => " \o returns
        ELSE TRUE

\* what C3 says of the rest of the call once OnConvert has registered a
\* declaration: every convert call returns the entry of the types table when
\* there is one, and the text already built is not rewritten
LaterReferencesAndEarlierText ==
    /\ \A m \in 1..Len(Log) :
          Log[m].ev = "ret" /\ Log[m].t \in DOMAIN Log[m].types =>
              Log[m].ts = Log[m].types[Log[m].t]
    /\ (~last.panicked /\ last.t \notin DOMAIN last.typesBefore
        /\ last.t.kind \notin PrimitiveKinds) => BuiltFromReturns

\* C3 as stated: when OnConvert, called for a type during a Convert call,
\* registers a declaration for it, that Convert call yields the registered
\* declaration, to the caller at top level as to an enclosing expansion.
C3_HookOverrideIsResult ==
    Fresh =>
        /\ \A k \in 1..Len(Log) :
              Installs(k) /\ Log[k + 1].ev = "exit" =>
                  IF k + 1 = Len(Log)
                  THEN last.ts = types[Log[k].t]
                  ELSE /\ Log[k + 2].ev = "ret"
                       /\ Log[k + 2].t = Log[k].t
                       /\ Log[k + 2].ts = Log[k + 1].types[Log[k].t]
        /\ LaterReferencesAndEarlierText

\* C3, amended: when OnConvert, called for a type during a Convert call,
\* registers a declaration for it, a nested conversion of the type hands the
\* registered declaration to the enclosing expansion, and a top-level
\* Convert call returns the declaration it computed and handed to OnConvert;
\* text built earlier in the call stays, later references get the entry.
C3_HookOverrideSeenByEnclosing ==
    Fresh =>
        /\ \A k \in 1..Len(Log) :
              Installs(k) /\ Log[k + 1].ev = "exit" =>
                  IF k + 1 = Len(Log)
                  THEN last.ts = Log[k].ts
                  ELSE /\ Log[k + 2].ev = "ret"
                       /\ Log[k + 2].t = Log[k].t
                       /\ Log[k + 2].ts = Log[k + 1].types[Log[k].t]
        /\ LaterReferencesAndEarlierText

\* a struct with two User fields was converted with a handler that registers
\* User the second time it sees it: the first field keeps the expansion, the
\* second gets the registered declaration
C3_Witness ==
    /\ Called
    /\ OnConvert = "registerSecond"
    /\ last.t = PairT
    /\ last.ts = "{ A: { Name: string }, B: User }"
    /\ \E k \in 1..Len(Log) : Installs(k) /\ Log[k].t = UserT

---------------------------------------------------------------------------
(* C5 *)

\* the declared results of the func type t without a trailing error
KeptOuts(t) ==
    IF Len(t.out) > 0 /\ Implements(t.out[Len(t.out)], errorType)
    THEN SubSeq(t.out, 1, Len(t.out) - 1)
    ELSE t.out

\* C5: the results of a func, less a trailing error, are converted in the
\* declared order and folded: none gives void, one gives the declaration
\* itself unless AlwaysArray, otherwise "[D1, D2, ...]"; the folded result is
\* wrapped in Promise<...> exactly when IsSync is false.
C5_ReturnFolding ==
    Fresh /\ last.t.kind = "func" /\ ~last.panicked
           /\ last.t \notin DOMAIN last.typesBefore =>
        LET R == KeptOuts(last.t)
            D == [i \in 1..Len(R) |-> TopRets[i].ts]
            folded == IF Len(R) = 0 THEN "void"
                      ELSE IF Len(R) = 1 /\ ~CurrentConf.AlwaysArray THEN D[1]
                      ELSE "[" \o Join(D, ", ") \o "]"
            expected == IF CurrentConf.IsSync THEN folded
                        ELSE "Promise<" \o folded \o ">"
            e == extractFunc(Pre, last.t, CurrentConf)
            params == Join(NameTypeList(e.finfo.Params), ", ")
        IN  /\ Len(TopRets) >= Len(R)
            /\ \A i \in 1..Len(R) : TopRets[i].t = R[i]
            /\ e.finfo.Returns = expected
            /\ last.ts = IF CurrentConf.IsMethod
                         THEN CurrentConf.MethodName \o " (" \o params \o "): " \o expected
                         ELSE "(" \o params \o ") => " \o expected

\* a func returning (error, error) was converted with AlwaysArray set: the
\* trailing error is dropped, the other is kept and wrapped in an array
C5_Witness ==
    /\ Called
    /\ last.t.kind = "func"
    /\ last.t.out = <<errorType, errorType>>
    /\ CurrentConf.AlwaysArray
    /\ ~CurrentConf.IsSync
    /\ OnConvert = "noop"
    /\ last.t.in = <<>>
    /\ last.ts = "() => Promise<[any]>"

---------------------------------------------------------------------------
(* C6 *)

\* the 1-based indices of the parameters of t that extractFunc retains
KeptIns(t, fconf) ==
    Ascending({i \in (IF fconf.IsMethod THEN 2 ELSE 1)..Len(t.in) :
                  ~(t.in[i].name = <<"C","o","n","t","e","x","t">>
                    /\ ~fconf.NoIgnoreContext)})

\* the name that extractFunc asks for for the parameter at 1-based index i
BaseName(t, fconf, i) ==
    IF Len(fconf.ParamNames) >= i THEN fconf.ParamNames[i] ELSE paramName(t.in[i])

\* the n-th candidate base, base1, base2, ...
Candidate(base, n) == IF n = 0 THEN base ELSE base \o ToString(n)

\* C6: the names of the parameters of a func declaration are pairwise
\* distinct, and each is the first of base, base1, base2, ... that no earlier
\* parameter of the func has.
C6_ParamNamesDistinct ==
    Fresh /\ last.t.kind = "func" /\ ~last.panicked
           /\ last.t \notin DOMAIN last.typesBefore =>
        LET ps == extractFunc(Pre, last.t, CurrentConf).finfo.Params
            returns == extractFunc(Pre, last.t, CurrentConf).finfo.Returns
            kept == KeptIns(last.t, CurrentConf)
        IN  /\ Len(ps) = Len(kept)
            /\ last.ts = IF CurrentConf.IsMethod
                         THEN CurrentConf.MethodName \o " (" \o Join(NameTypeList(ps), ", ")
                              \o "): " \o returns
                         ELSE "(" \o Join(NameTypeList(ps), ", ") \o ") => " \o returns
            /\ \A k \in 1..Len(ps) :
                  /\ \A j \in 1..(k - 1) : ps[j].Name # ps[k].Name
                  /\ \E n \in 0..(k - 1) :
                        /\ ps[k].Name = Candidate(BaseName(last.t, CurrentConf, kept[k]), n)
                        /\ \A m \in 0..(n - 1) :
                              \E j \in 1..(k - 1) :
                                  ps[j].Name = Candidate(BaseName(last.t, CurrentConf, kept[k]), m)

\* a func of three parameters was converted with ParamNames x1, x, x: the
\* names are x1, x, x2
C6_Witness ==
    /\ Called
    /\ last.t.kind = "func"
    /\ CurrentConf.ParamNames = <<"x1", "x", "x">>
    /\ ~CurrentConf.IsMethod
    /\ last.t.in = <<StringT, StringT, StringT>>
    /\ CurrentConf.IsSync
    /\ last.ts = "(x1: string, x: string, x2: string) => void"

---------------------------------------------------------------------------
(* C7 *)

\* the first character of the name of the field is an upper-case letter
Exported(f) == IsUpper(f.Name[1])

\* C7: the declaration of a struct has exactly the fields whose name starts
\* with an upper-case letter, in the declared order; without such a field it
\* is "{}".
C7_ExportedFieldsOnly ==
    Fresh /\ last.t.kind = "struct" /\ ~last.panicked
           /\ last.t \notin DOMAIN last.typesBefore =>
        LET exported == SelectSeq(last.t.fields, Exported)
            e == extractStruct(Pre, last.t)
        IN  /\ Len(e.sinfo.Fields) = Len(exported)
            /\ \A i \in 1..Len(exported) : e.sinfo.Fields[i].Name = Str(exported[i].Name)
            /\ Len(exported) = 0 => last.ts = "{}"
            /\ Len(exported) > 0 =>
                  /\ Len(TopRets) = Len(exported)
                  /\ last.ts = "{ " \o Join([i \in 1..Len(exported) |->
                                   Str(exported[i].Name) \o ": " \o TopRets[i].ts], ", ") \o " }"

====
